---------------------------- MODULE Spec2Model ----------------------------
(***************************************************************************)
(* A model of the devcade onboard backend:                                 *)
(*   - nfc.rs     : NfcClient, the worker thread that owns the NFC reader, *)
(*                  its request queue, and the association ring buffer;    *)
(*   - api/mod.rs : download_game / build_flatpak / launch_game, the       *)
(*                  CURRENT_GAME slot and flatpak_id_for_game.             *)
(* Strings are sequences of one-character (or one-token) strings, so that  *)
(* replace, format!, base64 decoding and hex encoding are computed.        *)
(***************************************************************************)
EXTENDS Integers, Sequences, FiniteSets, TLC

VARIABLES
    queue,        \* mpsc channel: NfcRequests sent and not yet received
    cur,          \* the worker's `callback`: the request it holds (or NoReq)
    wstate,       \* where the worker thread is in NfcClient::run
    listener,     \* TRUE while a GateKeeperMemberListener exists
    cache,        \* association_ids: ring of <<handle, association_id>>
    currentGame,  \* CURRENT_GAME
    nextId,       \* number of requests accepted so far, plus one
    seen,         \* number of distinct cards the reader has surfaced
    tagLog,       \* Tags replies delivered: <<association id, game id, handle,
                  \* process running then>>
    opens,        \* number of listeners opened so far
    lastReply,    \* the latest value delivered on a reply channel
    torn,         \* requests whose reply sender was dropped unanswered
    idIn,         \* the records flatpak_id_for_game was given
    idOut,        \* the identities it returned for them
    lpc,          \* where the task running launch_game/download_game is
    mode,         \* "launch": download_game was called by launch_game
    gameId,       \* the game_id argument
    dlGame,       \* download_game's resolved record `game`
    launched,     \* launch_game's record `game`, re-read from game.json
    localJson,    \* {root}/{id}/game.json: the record in it, or NoFile
    disk,         \* the other paths that exist under {root}/{id}/
    installed,    \* the application ids flatpak info finds installed
    zipIdx,       \* the unzip loop's index i (1-based)
    zipFailed,    \* the entries of this unzip that hit an error
    built,        \* flatpak-builder was invoked in this call
    calls,        \* the last two download_game calls that returned
    nCalls,       \* number of calls started
    proc,         \* the application id of the running game, or NoProc
    result        \* what the last finished call returned

brokerVars == <<queue, cur, wstate, listener, cache, nextId, seen, tagLog,
                opens, lastReply, torn>>

idVars == <<idIn, idOut>>

launchVars == <<lpc, mode, gameId, dlGame, launched, localJson, disk,
                installed, zipIdx, zipFailed, built, calls, nCalls, proc,
                result>>

\* What no step of the broker or of its callers touches.
outsideBroker == <<idVars, launchVars>>

vars == <<queue, cur, wstate, listener, cache, currentGame, nextId, seen,
          tagLog, opens, lastReply, torn, idVars, launchVars>>

(***************************************************************************)
(* Bounds of the model.                                                    *)
(***************************************************************************)
MaxRequests == 3
RingRequests == 10
NumCards == 10
MaxIdLen == 2
MaxCalls == 2
MaxPolls == 2
MaxLaunches == 1
MaxRelaunches == 3
SessionPolls == 11

(***************************************************************************)
(* Program constants.                                                      *)
(***************************************************************************)
Capacity == 8

(***************************************************************************)
(* Values.                                                                 *)
(***************************************************************************)
None == <<"None">>
Some(x) == <<"Some", x>>

NoReq == [id |-> 0, kind |-> "none", handle |-> <<>>, alive |-> FALSE,
          hw |-> "none"]
NoReply == [id |-> 0, kind |-> "none", handle |-> <<>>, value |-> None,
            hw |-> "none"]

CardNames == <<"c1", "c2", "c3", "c4", "c5", "c6", "c7", "c8", "c9", "c10",
               "c11", "c12">>
\* The raw association id of the n-th distinct card the reader surfaces.
RawId(n) == <<CardNames[n]>>

IdDash == <<"a", "-", "b">>
IdUnder == <<"a", "_", "b">>
GameIds == {IdDash, IdUnder}
Hash1 == <<"A", "A", "=", "=">>
Hash2 == <<"A", "Q", "=", "=">>
Hashes == {Hash1, Hash2}
DevcadeGame(i, h) == [id |-> i, hash |-> h, name |-> <<"game">>]
DefaultGame == [id |-> <<>>, hash |-> <<>>, name |-> <<>>]
NoFile == [id |-> <<>>, hash |-> <<>>, name |-> <<"no such file">>]
NoProc == <<"no process">>
Records == {DevcadeGame(i, h) : i \in GameIds, h \in Hashes}

Last(s) == s[Len(s)]

(***************************************************************************)
(* sha256::digest(format!("{association_id}:{game_uuid}")).  The digest is *)
(* taken to be collision free: it is the tagged preimage.                  *)
(***************************************************************************)
Format(association_id, game_uuid) == association_id \o <<":">> \o game_uuid
Sha256(s) == <<"sha256">> \o s
HandleFor(association_id, game_uuid) == Sha256(Format(association_id, game_uuid))
BogusHandle == <<"sha256", "never issued">>

(***************************************************************************)
(* flatpak_id_for_game.                                                    *)
(***************************************************************************)
RECURSIVE Replace(_)
\* game.id.replace('-', "_")
Replace(s) ==
    IF s = <<>> THEN <<>>
    ELSE <<IF Head(s) = "-" THEN "_" ELSE Head(s)>> \o Replace(Tail(s))

\* The value of a symbol of the standard base64 alphabet; -1 for any other
\* character, the padding character included.
B64Value(c) ==
    CASE c = "A" -> 0
      [] c = "B" -> 1
      [] c = "Q" -> 16
      [] c = "/" -> 63
      [] OTHER -> -1

\* Bytes are 0..255; a failed decode is kept apart from every byte string.
DecodeError == <<-1>>

\* One group of four symbols.  A group without padding is three bytes; the
\* last group may end in "==" (one byte) or "=" (two bytes), and its unused
\* low bits must be zero.
DecodeQuad(q, isLast) ==
    LET a == B64Value(q[1])
        b == B64Value(q[2])
        c == B64Value(q[3])
        d == B64Value(q[4])
    IN  IF a < 0 \/ b < 0 THEN DecodeError
        ELSE IF c >= 0 /\ d >= 0
             THEN <<(a * 4) + (b \div 16), ((b % 16) * 16) + (c \div 4),
                    ((c % 4) * 64) + d>>
        ELSE IF ~isLast THEN DecodeError
        ELSE IF c >= 0 /\ q[4] = "="
             THEN IF c % 4 = 0
                  THEN <<(a * 4) + (b \div 16), ((b % 16) * 16) + (c \div 4)>>
                  ELSE DecodeError
        ELSE IF q[3] = "=" /\ q[4] = "="
             THEN IF b % 16 = 0 THEN <<(a * 4) + (b \div 16)>>
                  ELSE DecodeError
        ELSE DecodeError

RECURSIVE Base64Decode(_)
\* base64::engine::general_purpose::STANDARD.decode(&game.hash)
Base64Decode(s) ==
    IF s = <<>> THEN <<>>
    ELSE IF Len(s) < 4 THEN DecodeError
    ELSE LET first == DecodeQuad(SubSeq(s, 1, 4), Len(s) = 4)
             rest == Base64Decode(SubSeq(s, 5, Len(s)))
         IN  IF first = DecodeError \/ rest = DecodeError THEN DecodeError
             ELSE first \o rest

HexDigits == <<"0", "1", "2", "3", "4", "5", "6", "7", "8", "9", "a", "b",
               "c", "d", "e", "f">>

RECURSIVE HexEncode(_)
\* hex::encode(game_hash_bytes)
HexEncode(bytes) ==
    IF bytes = <<>> THEN <<>>
    ELSE <<HexDigits[(Head(bytes) \div 16) + 1],
           HexDigits[(Head(bytes) % 16) + 1]>>
         \o HexEncode(Tail(bytes))

Panicked == <<"panicked">>

\* flatpak_id_for_game with the hash left out of the identity.
FlatpakIdWithoutHash(game) ==
    IF Base64Decode(game.hash) = DecodeError THEN Panicked
    ELSE <<"edu.rit.csh.devcade.generated_game.id_">> \o Replace(game.id)
         \o <<".hash_">>

\* format!("edu.rit.csh.devcade.generated_game.id_{game_id}.hash_{game_hash_str}");
\* the unwrap of a failed decode panics.
FlatpakIdForGame(game) ==
    LET game_id == Replace(game.id)
        game_hash_bytes == Base64Decode(game.hash)
    IN  IF game_hash_bytes = DecodeError THEN Panicked
        ELSE <<"edu.rit.csh.devcade.generated_game.id_">> \o game_id
             \o <<".hash_">> \o HexEncode(game_hash_bytes)

\* The inputs flatpak_id_for_game is applied to: identifiers of at most
\* MaxIdLen characters, and hashes that are empty or one group of four
\* symbols.
IdChars == {"a", "-", "_"}
HashChars == {"A", "B", "="}
RECURSIVE Strings(_, _)
Strings(chars, n) ==
    IF n = 0 THEN {<<>>}
    ELSE LET shorter == Strings(chars, n - 1)
         IN  shorter \cup {<<c>> \o t : c \in chars,
                                        t \in {u \in shorter : Len(u) = n - 1}}
IdInputs == Strings(IdChars, MaxIdLen)
HashInputs == {<<>>} \cup {<<"A">> \o t : t \in {u \in Strings(HashChars, 3) : Len(u) = 3}}
GameInputs == {DevcadeGame(i, h) : i \in IdInputs, h \in HashInputs}

(***************************************************************************)
(* AllocRingBuffer<(String, String)>: iteration runs oldest to newest, and *)
(* push on a full buffer overwrites the oldest element.                    *)
(***************************************************************************)
\* A push that overwrites the newest element of a full buffer.
PushOverNewest(buf, e) ==
    IF Len(buf) = Capacity THEN SubSeq(buf, 1, Capacity - 1) \o <<e>>
    ELSE Append(buf, e)

Push(buf, e) ==
    IF Len(buf) = Capacity THEN Tail(buf) \o <<e>> ELSE Append(buf, e)

RECURSIVE FindRaw(_, _)
\* find_map(|(handle, association_id)| handle == association_handle)
FindRaw(buf, h) ==
    IF buf = <<>> THEN None
    ELSE IF Head(buf)[1] = h THEN Some(Head(buf)[2])
    ELSE FindRaw(Tail(buf), h)

RECURSIVE FindHandle(_, _)
\* find(|(_, candidate_association_id)| candidate == association_id)
FindHandle(buf, raw) ==
    IF buf = <<>> THEN None
    ELSE IF Head(buf)[2] = raw THEN Some(Head(buf)[1])
    ELSE FindHandle(Tail(buf), raw)

\* user["user"].as_object().cloned() of the payload fetch_user returns
UserOf(raw) == <<"user of">> \o raw

(***************************************************************************)
(* Initial state: NfcClient::default() has spawned the worker, which is    *)
(* blocked in rx.recv() with an empty ring; CURRENT_GAME is the default.   *)
(***************************************************************************)
BrokerInit ==
    /\ queue = <<>>
    /\ cur = NoReq
    /\ wstate = "Idle"
    /\ listener = FALSE
    /\ cache = <<>>
    /\ nextId = 1
    /\ seen = 0
    /\ tagLog = {}
    /\ opens = 0
    /\ lastReply = NoReply
    /\ torn = {}

\* No call is in progress; nothing was downloaded or installed.
LaunchInit ==
    /\ lpc = "idle"
    /\ mode = "none"
    /\ gameId = <<>>
    /\ dlGame = DefaultGame
    /\ launched = DefaultGame
    /\ localJson = [g \in GameIds |-> NoFile]
    /\ disk = [g \in GameIds |-> {}]
    /\ installed = {}
    /\ zipIdx = 0
    /\ zipFailed = {}
    /\ built = FALSE
    /\ calls = <<>>
    /\ nCalls = 0
    /\ proc = NoProc
    /\ result = "none"

Init ==
    /\ BrokerInit
    /\ currentGame = DefaultGame
    /\ idIn = <<>>
    /\ idOut = <<>>
    /\ LaunchInit

(***************************************************************************)
(* Callers.                                                                *)
(***************************************************************************)
\* The handles callers hold: those some Tags reply delivered.
Issued == {t[3] : t \in tagLog}

InFlight == {queue[i].id : i \in 1..Len(queue)} \cup
            (IF cur.id # 0 THEN {cur.id} ELSE {})

\* request_queue.lock().await.send(..): the send is accepted while the
\* receiver (the worker thread) exists.
Send(kind, h) ==
    /\ wstate # "Dead"
    /\ queue' = Append(queue, [id |-> nextId, kind |-> kind, handle |-> h,
                               alive |-> TRUE, hw |-> "none"])
    /\ nextId' = nextId + 1
    /\ UNCHANGED <<cur, wstate, listener, cache, currentGame, seen, tagLog,
                   opens, lastReply, torn>>
    /\ UNCHANGED outsideBroker

Submit ==
    /\ nextId <= MaxRequests
    /\ Send("Tags", <<>>)

GetUser ==
    /\ nextId <= MaxRequests
    /\ \E h \in Issued \cup {BogusHandle} : Send("User", h)

\* One caller at a time: the next call is made after the previous returned.
SubmitSeq ==
    /\ nextId <= RingRequests
    /\ InFlight = {}
    /\ Send("Tags", <<>>)

GetUserSeq ==
    /\ nextId <= RingRequests
    /\ InFlight = {}
    /\ \E h \in Issued \cup {BogusHandle} : Send("User", h)

\* The future returned by submit/get_user is dropped before the reply
\* arrives: the oneshot receiver is gone.
Abandon ==
    \/ /\ cur.id # 0
       /\ cur.alive
       /\ cur' = [cur EXCEPT !.alive = FALSE]
       /\ UNCHANGED <<queue, wstate, listener, cache, currentGame, nextId,
                      seen, tagLog, opens, lastReply, torn, outsideBroker>>
    \/ /\ \E i \in 1..Len(queue) :
            /\ queue[i].alive
            /\ queue' = [queue EXCEPT ![i].alive = FALSE]
       /\ UNCHANGED <<cur, wstate, listener, cache, currentGame, nextId,
                      seen, tagLog, opens, lastReply, torn, outsideBroker>>

(***************************************************************************)
(* The worker thread, NfcClient::run.                                      *)
(***************************************************************************)
\* callback.send(value).unwrap(): delivered when the receiver is alive;
\* otherwise send is Err and unwrap panics, which ends the thread: the
\* unwinding drops the listener, rx and with it every queued request's
\* reply sender.
Reply(value, hwop, next) ==
    IF cur.alive
    THEN /\ lastReply' = [id |-> cur.id, kind |-> cur.kind,
                          handle |-> cur.handle, value |-> value,
                          hw |-> hwop]
         /\ wstate' = next
         /\ cur' = NoReq
         /\ UNCHANGED <<queue, torn, listener>>
    ELSE /\ wstate' = "Dead"
         /\ torn' = {queue[i].id : i \in {j \in 1..Len(queue) : queue[j].alive}}
         /\ queue' = <<>>
         /\ listener' = FALSE
         /\ UNCHANGED <<cur, lastReply>>

\* Recv taking the newest request instead of the oldest.
RecvNewest ==
    /\ wstate = "Idle"
    /\ queue # <<>>
    /\ cur' = Last(queue)
    /\ queue' = SubSeq(queue, 1, Len(queue) - 1)
    /\ wstate' = "Opening"
    /\ UNCHANGED <<listener, cache, currentGame, nextId, seen, tagLog,
                   opens, lastReply, torn>>
    /\ UNCHANGED outsideBroker

\* let mut callback = rx.recv().unwrap();
Recv ==
    /\ wstate = "Idle"
    /\ queue # <<>>
    /\ cur' = Head(queue)
    /\ queue' = Tail(queue)
    /\ wstate' = "Opening"
    /\ UNCHANGED <<listener, cache, currentGame, nextId, seen, tagLog,
                   opens, lastReply, torn>>
    /\ UNCHANGED outsideBroker

\* GateKeeperMemberListener::new(..) is Some(listener)
OpenOk ==
    /\ wstate = "Opening"
    /\ listener' = TRUE
    /\ opens' = opens + 1
    /\ wstate' = "Serving"
    /\ UNCHANGED <<queue, cur, cache, currentGame, nextId, seen, tagLog,
                   lastReply, torn>>
    /\ UNCHANGED outsideBroker

\* OpenFail dropping the triggering request without a reply.
OpenFailNoReply ==
    /\ wstate = "Opening"
    /\ wstate' = "Idle"
    /\ cur' = NoReq
    /\ UNCHANGED <<queue, listener, cache, currentGame, nextId, seen, tagLog,
                   opens, lastReply, torn>>
    /\ UNCHANGED outsideBroker

\* GateKeeperMemberListener::new(..) is None
OpenFail ==
    /\ wstate = "Opening"
    /\ Reply(None, "none", "Idle")
    /\ UNCHANGED <<cache, currentGame, nextId, seen, tagLog, opens>>
    /\ UNCHANGED outsideBroker

\* ServeTags with the find over the ring left out: every surfaced card is
\* pushed, cached or not.
ServeTagsAlwaysPush ==
    /\ wstate = "Serving"
    /\ cur.kind = "Tags"
    /\ \/ /\ Reply(None, "poll", "Waiting")
          /\ UNCHANGED <<cache, seen, tagLog>>
       \/ \E n \in 1..(IF seen < NumCards THEN seen + 1 ELSE seen) :
            LET raw == RawId(n)
                handle == HandleFor(raw, currentGame.id)
            IN /\ cache' = Push(cache, <<handle, raw>>)
               /\ seen' = IF n > seen THEN n ELSE seen
               /\ tagLog' = IF cur.alive
                            THEN tagLog \cup {<<raw, currentGame.id, handle,
                                                 proc>>}
                            ELSE tagLog
               /\ Reply(Some(handle), "poll", "Waiting")
    /\ UNCHANGED <<currentGame, nextId, opens>>
    /\ UNCHANGED outsideBroker

\* NfcRequest::Tags: poll_for_user() is None, or Some(association_id) for a
\* card seen before or for the next card not seen so far.
ServeTags ==
    /\ wstate = "Serving"
    /\ cur.kind = "Tags"
    /\ \/ /\ Reply(None, "poll", "Waiting")
          /\ UNCHANGED <<cache, seen, tagLog>>
       \/ \E n \in 1..(IF seen < NumCards THEN seen + 1 ELSE seen) :
            LET raw == RawId(n)
                hit == FindHandle(cache, raw)
                handle == IF hit # None THEN hit[2]
                          ELSE HandleFor(raw, currentGame.id)
            IN /\ cache' = IF hit # None THEN cache
                           ELSE Push(cache, <<handle, raw>>)
               /\ seen' = IF n > seen THEN n ELSE seen
               /\ tagLog' = IF cur.alive
                            THEN tagLog \cup {<<raw, currentGame.id, handle,
                                                 proc>>}
                            ELSE tagLog
               /\ Reply(Some(handle), "poll", "Waiting")
    /\ UNCHANGED <<currentGame, nextId, opens>>
    /\ UNCHANGED outsideBroker

\* ServeUser asking the hardware about a handle that is not in the ring.
ServeUserUncached ==
    /\ wstate = "Serving"
    /\ cur.kind = "User"
    /\ LET hit == FindRaw(cache, cur.handle)
       IN \E outcome \in {"ok", "nouser", "err"} :
            Reply(IF outcome # "ok" THEN None
                  ELSE IF hit = None THEN Some(UserOf(cur.handle))
                  ELSE Some(UserOf(hit[2])),
                  "fetch", "Waiting")
    /\ UNCHANGED <<cache, currentGame, nextId, seen, tagLog, opens>>
    /\ UNCHANGED outsideBroker

\* NfcRequest::User: the handle is looked up in the ring; fetch_user is
\* called only on a hit, and it returns Ok with a "user" object, Ok without
\* one, or Err.
ServeUser ==
    /\ wstate = "Serving"
    /\ cur.kind = "User"
    /\ LET hit == FindRaw(cache, cur.handle)
       IN IF hit = None
          THEN Reply(None, "none", "Waiting")
          ELSE \E outcome \in {"ok", "nouser", "err"} :
                 Reply(IF outcome = "ok" THEN Some(UserOf(hit[2])) ELSE None,
                       "fetch", "Waiting")
    /\ UNCHANGED <<cache, currentGame, nextId, seen, tagLog, opens>>
    /\ UNCHANGED outsideBroker

\* rx.recv_timeout(30s) is Ok(new_request)
RecvNext ==
    /\ wstate = "Waiting"
    /\ queue # <<>>
    /\ cur' = Head(queue)
    /\ queue' = Tail(queue)
    /\ wstate' = "Serving"
    /\ UNCHANGED <<listener, cache, currentGame, nextId, seen, tagLog,
                   opens, lastReply, torn>>
    /\ UNCHANGED outsideBroker

\* IdleTimeout with the ring declared inside the outer loop.
IdleTimeoutClears ==
    /\ wstate = "Waiting"
    /\ queue = <<>>
    /\ listener' = FALSE
    /\ wstate' = "Idle"
    /\ cache' = <<>>
    /\ UNCHANGED <<queue, cur, currentGame, nextId, seen, tagLog,
                   opens, lastReply, torn>>
    /\ UNCHANGED outsideBroker

\* IdleTimeout with the listener kept open across the outer loop.
IdleTimeoutKeepsListener ==
    /\ wstate = "Waiting"
    /\ queue = <<>>
    /\ wstate' = "Idle"
    /\ UNCHANGED <<queue, cur, listener, cache, currentGame, nextId, seen,
                   tagLog, opens, lastReply, torn>>
    /\ UNCHANGED outsideBroker

\* rx.recv_timeout(30s) is Err: nothing arrived for 30 s; break drops the
\* listener and the outer loop blocks in rx.recv() again.
IdleTimeout ==
    /\ wstate = "Waiting"
    /\ queue = <<>>
    /\ listener' = FALSE
    /\ wstate' = "Idle"
    /\ UNCHANGED <<queue, cur, cache, currentGame, nextId, seen, tagLog,
                   opens, lastReply, torn>>
    /\ UNCHANGED outsideBroker

Worker == Recv \/ OpenOk \/ OpenFail \/ ServeTags \/ ServeUser \/ RecvNext
          \/ IdleTimeout

(***************************************************************************)
(* launch_game's write of CURRENT_GAME, as the broker sees it.             *)
(***************************************************************************)
SetCurrentGame ==
    /\ \E g \in Records : currentGame' = g
    /\ currentGame' # currentGame
    /\ UNCHANGED brokerVars
    /\ UNCHANGED outsideBroker

Next ==
    \/ Submit
    \/ GetUser
    \/ Abandon
    \/ Recv
    \/ OpenOk
    \/ OpenFail
    \/ ServeTags
    \/ ServeUser
    \/ RecvNext
    \/ IdleTimeout
    \/ SetCurrentGame

Spec == Init /\ [][Next]_vars

(***************************************************************************)
(* The broker under a single caller that makes one call after another, as  *)
(* many as it takes to fill the ring and evict from it.                    *)
(***************************************************************************)
NextRing ==
    \/ SubmitSeq
    \/ GetUserSeq
    \/ Recv
    \/ OpenOk
    \/ OpenFail
    \/ ServeTags
    \/ ServeUser
    \/ RecvNext
    \/ IdleTimeout

SpecRing == Init /\ [][NextRing]_vars

(***************************************************************************)
(* A session of polls by one caller during which launch_game publishes its *)
(* first game: the polls answered under one current-game id are those of   *)
(* one stretch of time in which the current game did not change.           *)
(***************************************************************************)
PollSession ==
    /\ nextId <= SessionPolls
    /\ InFlight = {}
    /\ Send("Tags", <<>>)

PublishFirstGame ==
    /\ currentGame = DefaultGame
    /\ currentGame' = DevcadeGame(IdDash, Hash1)
    /\ UNCHANGED brokerVars
    /\ UNCHANGED outsideBroker

NextSession ==
    \/ PollSession
    \/ Recv
    \/ OpenOk
    \/ OpenFail
    \/ ServeTags
    \/ RecvNext
    \/ IdleTimeout
    \/ PublishFirstGame

SpecSession == Init /\ [][NextSession]_vars

(***************************************************************************)
(* flatpak_id_for_game on its own: it is applied to one record, then to a  *)
(* second one.                                                             *)
(***************************************************************************)
InitId ==
    /\ BrokerInit
    /\ LaunchInit
    /\ currentGame = DefaultGame
    /\ idIn \in {<<g>> : g \in GameInputs}
    /\ idOut = <<>>

ApplyFirst ==
    /\ Len(idIn) = 1
    /\ idOut = <<>>
    /\ idOut' = <<FlatpakIdForGame(idIn[1])>>
    /\ UNCHANGED <<brokerVars, launchVars, currentGame, idIn>>

ApplySecond ==
    /\ Len(idOut) = 1
    /\ \E g \in GameInputs :
        /\ idIn' = Append(idIn, g)
        /\ idOut' = Append(idOut, FlatpakIdForGame(g))
    /\ UNCHANGED <<brokerVars, launchVars, currentGame>>

NextId ==
    \/ ApplyFirst
    \/ ApplySecond

SpecId == InitId /\ [][NextId]_vars

(***************************************************************************)
(* Provisioning and launch: download_game, build_flatpak, launch_game.     *)
(* One task runs them, one await point at a time.                          *)
(***************************************************************************)
\* The entries of the archive the catalog serves for a game, in order.
\* A path is a sequence of file names, a file name a sequence of tokens; an
\* archive entry is a path and whether its name ends with '/'.
Publish == <<"publish">>
RuntimeConfig == ".runtimeconfig.json"
FlatpakYml == << <<"flatpak.yml">> >>
Entry(p, d) == [path |-> p, dir |-> d]
Archive(g) ==
    IF g = IdDash
    THEN << Entry(<<Publish>>, TRUE),
            Entry(<<Publish, <<"app", RuntimeConfig>> >>, FALSE),
            Entry(<<Publish, <<"app">> >>, FALSE) >>
    ELSE << Entry(<<Publish, <<"game">> >>, FALSE),
            Entry(<<Publish, <<"data">> >>, FALSE) >>

\* out_path.parent()
Parent(p) == SubSeq(p, 1, Len(p) - 1)

\* The last two elements of a sequence.
LastTwo(s) == IF Len(s) <= 2 THEN s ELSE SubSeq(s, Len(s) - 1, Len(s))

\* The call is over: its locals are gone, `res` is what the caller sees.
Return(res) ==
    /\ lpc' = "idle"
    /\ mode' = "none"
    /\ gameId' = <<>>
    /\ dlGame' = DefaultGame
    /\ launched' = DefaultGame
    /\ zipIdx' = 0
    /\ zipFailed' = {}
    /\ built' = FALSE
    /\ result' = res

\* download_game or launch_game unwinds on a panic.
Panics ==
    /\ Return("Panic")
    /\ UNCHANGED calls

\* download_game returns `res`; launch_game goes on only after Ok (`?`).
DownloadReturns(res, b) ==
    /\ calls' = LastTwo(Append(calls, [id |-> gameId, hash |-> dlGame.hash,
                                       result |-> res, built |-> b]))
    /\ IF mode = "launch" /\ res = "Ok"
       THEN /\ lpc' = "reread"
            /\ zipIdx' = 0
            /\ built' = b
            /\ UNCHANGED <<mode, gameId, dlGame, launched, zipFailed, result>>
       ELSE Return(res)

\* A caller starts launch_game or download_game (both are pub).
StartCall(m) ==
    /\ lpc = "idle"
    /\ \E g \in GameIds : gameId' = g
    /\ mode' = m
    /\ lpc' = "resolve"
    /\ nCalls' = nCalls + 1
    /\ result' = "none"
    /\ UNCHANGED <<dlGame, launched, localJson, disk, installed, zipIdx,
                   zipFailed, built, calls, proc>>
    /\ UNCHANGED <<brokerVars, currentGame, idVars>>

LaunchGame ==
    /\ nCalls < MaxCalls
    /\ StartCall("launch")

DownloadGame ==
    /\ nCalls < MaxCalls
    /\ StartCall("download")

\* get_game answers with the catalog's record, whatever hash it has now;
\* or it fails and game.json is read instead, and must exist.
Resolve ==
    /\ lpc = "resolve"
    /\ \/ /\ \E h \in Hashes : dlGame' = DevcadeGame(gameId, h)
          /\ lpc' = "probe"
          /\ UNCHANGED <<mode, gameId, launched, zipIdx, zipFailed, built,
                         calls, result>>
       \/ IF localJson[gameId] # NoFile
          THEN /\ dlGame' = localJson[gameId]
               /\ lpc' = "probe"
               /\ UNCHANGED <<mode, gameId, launched, zipIdx, zipFailed,
                              built, calls, result>>
          ELSE Panics
    /\ UNCHANGED <<localJson, disk, installed, nCalls, proc>>
    /\ UNCHANGED <<brokerVars, currentGame, idVars>>

\* The probe with its result ignored: download_game always goes on.
ProbeIgnored ==
    /\ lpc = "probe"
    /\ \/ /\ lpc' = "download"
          /\ UNCHANGED <<mode, gameId, dlGame, launched, zipIdx, zipFailed,
                         built, calls, result>>
       \/ Panics
    /\ UNCHANGED <<localJson, disk, installed, nCalls, proc>>
    /\ UNCHANGED <<brokerVars, currentGame, idVars>>

\* flatpak info <id>: success means installed, and download_game is done.
Probe ==
    /\ lpc = "probe"
    /\ \/ IF FlatpakIdForGame(dlGame) \in installed
          THEN DownloadReturns("Ok", FALSE)
          ELSE /\ lpc' = "download"
               /\ UNCHANGED <<mode, gameId, dlGame, launched, zipIdx,
                              zipFailed, built, calls, result>>
       \/ Panics
    /\ UNCHANGED <<localJson, disk, installed, nCalls, proc>>
    /\ UNCHANGED <<brokerVars, currentGame, idVars>>

\* Download with a failed request_bytes or ZipArchive::new passed over:
\* download_game goes on to write game.json.
DownloadFailureIgnored ==
    /\ lpc = "download"
    /\ \/ /\ lpc' = "unzip"
          /\ zipIdx' = 1
          /\ zipFailed' = {}
          /\ UNCHANGED <<mode, gameId, dlGame, launched, built, calls,
                         result>>
       \/ /\ lpc' = "write"
          /\ UNCHANGED <<mode, gameId, dlGame, launched, zipIdx, zipFailed,
                         built, calls, result>>
    /\ UNCHANGED <<localJson, disk, installed, nCalls, proc>>
    /\ UNCHANGED <<brokerVars, currentGame, idVars>>

\* request_bytes and ZipArchive::new: either may fail, with `?`.
Download ==
    /\ lpc = "download"
    /\ \/ /\ lpc' = "unzip"
          /\ zipIdx' = 1
          /\ zipFailed' = {}
          /\ UNCHANGED <<mode, gameId, dlGame, launched, built, calls,
                         result>>
       \/ DownloadReturns("Err", FALSE)
    /\ UNCHANGED <<localJson, disk, installed, nCalls, proc>>
    /\ UNCHANGED <<brokerVars, currentGame, idVars>>

\* What can happen to one entry: by_index fails, create_dir_all fails,
\* File::create fails, io::copy fails, or nothing fails.
EntryOutcomes(e, have) ==
    IF e.dir THEN {"ok", "unreadable", "nodir"}
    ELSE {"ok", "unreadable", "nocreate", "nocopy"}
         \cup (IF Parent(e.path) \in have THEN {} ELSE {"nodir"})

\* The paths that exist once the entry was handled with outcome o.
Extracted(e, o, have) ==
    IF e.dir
    THEN IF o = "ok" THEN have \cup {e.path} ELSE have
    ELSE CASE o \in {"unreadable", "nodir"} -> have
           [] o = "nocreate" -> have \cup {Parent(e.path)}
           [] OTHER -> have \cup {Parent(e.path), e.path}

\* The unzip loop as it would be if an entry's error ended download_game.
UnzipAborting ==
    /\ lpc = "unzip"
    /\ LET zip == Archive(gameId)
           e == zip[zipIdx]
       IN \E o \in EntryOutcomes(e, disk[dlGame.id]) :
            /\ disk' = [disk EXCEPT
                           ![dlGame.id] = Extracted(e, o, disk[dlGame.id])]
            /\ IF o # "ok" THEN DownloadReturns("Err", FALSE)
               ELSE /\ zipIdx' = zipIdx + 1
                    /\ lpc' = IF zipIdx = Len(zip) THEN "write" ELSE "unzip"
                    /\ UNCHANGED <<mode, gameId, dlGame, launched, zipFailed,
                                   built, calls, result>>
    /\ UNCHANGED <<localJson, installed, nCalls, proc>>
    /\ UNCHANGED <<brokerVars, currentGame, idVars>>

\* One iteration of `for i in 0..zip.len()`: every error is logged and the
\* loop goes on.
Unzip ==
    /\ lpc = "unzip"
    /\ LET zip == Archive(gameId)
           e == zip[zipIdx]
       IN \E o \in EntryOutcomes(e, disk[dlGame.id]) :
            /\ disk' = [disk EXCEPT
                           ![dlGame.id] = Extracted(e, o, disk[dlGame.id])]
            /\ zipFailed' = IF o = "ok" THEN zipFailed
                            ELSE zipFailed \cup {zipIdx}
            /\ zipIdx' = zipIdx + 1
            /\ lpc' = IF zipIdx = Len(zip) THEN "write" ELSE "unzip"
    /\ UNCHANGED <<mode, gameId, dlGame, launched, built, calls, result>>
    /\ UNCHANGED <<localJson, installed, nCalls, proc>>
    /\ UNCHANGED <<brokerVars, currentGame, idVars>>

\* game.json is written: create_dir_all(..).unwrap(), then fs::write.
WriteJson ==
    /\ lpc = "write"
    /\ \/ /\ localJson' = [localJson EXCEPT ![gameId] = dlGame]
          /\ lpc' = "locate"
          /\ UNCHANGED <<mode, gameId, dlGame, launched, zipIdx, zipFailed,
                         built, calls, result>>
       \/ /\ DownloadReturns("Err", FALSE)
          /\ UNCHANGED localJson
       \/ /\ Panics
          /\ UNCHANGED localJson
    /\ UNCHANGED <<disk, installed, nCalls, proc>>
    /\ UNCHANGED <<brokerVars, currentGame, idVars>>

\* locate_executable: the stem of a *.runtimeconfig.json file in publish/,
\* else the name in game.json; NotLocated where read_dir or that read fails.
NotLocated == <<"Err">>
LocateExecutable(g) ==
    IF <<Publish>> \notin disk[g] \/ localJson[g] = NoFile THEN NotLocated
    ELSE LET configs == {p \in disk[g] : /\ Len(p) = 2
                                         /\ Parent(p) = <<Publish>>
                                         /\ Last(Last(p)) = RuntimeConfig}
         IN IF configs # {}
            THEN LET p == CHOOSE c \in configs : TRUE
                 IN SubSeq(Last(p), 1, Len(Last(p)) - 1)
            ELSE localJson[g].name

\* build_flatpak going on to the manifest whether or not the executable
\* was found.
ChmodUnchecked ==
    /\ lpc = "locate"
    /\ \/ /\ lpc' = "manifest"
          /\ UNCHANGED <<mode, gameId, dlGame, launched, zipIdx, zipFailed,
                         built, calls, result>>
       \/ DownloadReturns("Err", FALSE)
    /\ UNCHANGED <<localJson, disk, installed, nCalls, proc>>
    /\ UNCHANGED <<brokerVars, currentGame, idVars>>

\* build_flatpak up to the manifest: locate the executable, chmod it.
Chmod ==
    /\ lpc = "locate"
    /\ LET executable == LocateExecutable(gameId)
       IN IF \/ executable = NotLocated
             \/ <<Publish, executable>> \notin disk[gameId]
          THEN DownloadReturns("Err", FALSE)
          ELSE \/ /\ lpc' = "manifest"
                  /\ UNCHANGED <<mode, gameId, dlGame, launched, zipIdx,
                                 zipFailed, built, calls, result>>
               \/ DownloadReturns("Err", FALSE)
    /\ UNCHANGED <<localJson, disk, installed, nCalls, proc>>
    /\ UNCHANGED <<brokerVars, currentGame, idVars>>

\* flatpak.yml is written.
WriteManifest ==
    /\ lpc = "manifest"
    /\ \/ /\ disk' = [disk EXCEPT ![gameId] = @ \cup {FlatpakYml}]
          /\ lpc' = "builder"
          /\ UNCHANGED <<mode, gameId, dlGame, launched, zipIdx, zipFailed,
                         built, calls, result>>
       \/ /\ DownloadReturns("Err", FALSE)
          /\ UNCHANGED disk
    /\ UNCHANGED <<localJson, installed, nCalls, proc>>
    /\ UNCHANGED <<brokerVars, currentGame, idVars>>

\* flatpak-builder --install runs; its exit status is not looked at.
FlatpakBuilder ==
    /\ lpc = "builder"
    /\ \/ /\ \E success \in BOOLEAN :
               installed' = IF success
                            THEN installed \cup {FlatpakIdForGame(dlGame)}
                            ELSE installed
          /\ DownloadReturns("Ok", TRUE)
       \/ /\ Panics
          /\ UNCHANGED installed
    /\ UNCHANGED <<localJson, disk, nCalls, proc>>
    /\ UNCHANGED <<brokerVars, currentGame, idVars>>

\* launch_game reads game.json back (`?`); the flush changes nothing here.
GameFromPath ==
    /\ lpc = "reread"
    /\ IF localJson[gameId] = NoFile
       THEN Return("Err")
       ELSE \/ /\ launched' = localJson[gameId]
               /\ lpc' = "publish"
               /\ UNCHANGED <<mode, gameId, dlGame, zipIdx, zipFailed, built,
                              result>>
            \/ Return("Err")
    /\ UNCHANGED <<localJson, disk, installed, calls, nCalls, proc>>
    /\ UNCHANGED <<brokerVars, currentGame, idVars>>

\* CURRENT_GAME.lock().unwrap().set(game.clone()), as it would be if it
\* were left out.
SetCurrentSkipped ==
    /\ lpc = "publish"
    /\ lpc' = "spawn"
    /\ UNCHANGED currentGame
    /\ UNCHANGED <<mode, gameId, dlGame, launched, localJson, disk, installed,
                   zipIdx, zipFailed, built, calls, nCalls, proc, result>>
    /\ UNCHANGED <<brokerVars, idVars>>

\* CURRENT_GAME.lock().unwrap().set(game.clone())
SetCurrent ==
    /\ lpc = "publish"
    /\ currentGame' = launched
    /\ lpc' = "spawn"
    /\ UNCHANGED <<mode, gameId, dlGame, launched, localJson, disk, installed,
                   zipIdx, zipFailed, built, calls, nCalls, proc, result>>
    /\ UNCHANGED <<brokerVars, idVars>>

\* flatpak run <id> is spawned, or spawn fails and expect panics.
SpawnGame ==
    /\ lpc = "spawn"
    /\ \/ /\ proc' = FlatpakIdForGame(launched)
          /\ lpc' = "running"
          /\ UNCHANGED <<mode, gameId, dlGame, launched, zipIdx, zipFailed,
                         built, calls, result>>
       \/ /\ Panics
          /\ UNCHANGED proc
    /\ UNCHANGED <<localJson, disk, installed, nCalls>>
    /\ UNCHANGED <<brokerVars, currentGame, idVars>>

\* GameExits putting the default record back into CURRENT_GAME.
GameExitsResetting ==
    /\ lpc = "running"
    /\ proc' = NoProc
    /\ currentGame' = DefaultGame
    /\ \/ /\ Return("Ok")
          /\ UNCHANGED calls
       \/ Panics
    /\ UNCHANGED <<localJson, disk, installed, nCalls>>
    /\ UNCHANGED <<brokerVars, idVars>>

\* The game exits: wait returns, launch_game sleeps and returns Ok; or wait
\* fails and expect panics.
GameExits ==
    /\ lpc = "running"
    /\ proc' = NoProc
    /\ \/ /\ Return("Ok")
          /\ UNCHANGED calls
       \/ Panics
    /\ UNCHANGED <<localJson, disk, installed, nCalls>>
    /\ UNCHANGED <<brokerVars, currentGame, idVars>>

Launcher ==
    \/ LaunchGame
    \/ DownloadGame
    \/ Resolve
    \/ Probe
    \/ Download
    \/ Unzip
    \/ WriteJson
    \/ Chmod
    \/ WriteManifest
    \/ FlatpakBuilder
    \/ GameFromPath
    \/ SetCurrent
    \/ SpawnGame
    \/ GameExits

NextLaunch ==
    \/ Launcher

SpecLaunch == Init /\ [][NextLaunch]_vars

(***************************************************************************)
(* Launches with the broker at work: a caller polls for tags, one poll at  *)
(* a time, while launch_game runs.                                         *)
(***************************************************************************)
LaunchDuringPolls ==
    /\ nCalls < MaxLaunches
    /\ StartCall("launch")

PollTags ==
    /\ nextId <= MaxPolls
    /\ InFlight = {}
    /\ Send("Tags", <<>>)

NextPlay ==
    \/ LaunchDuringPolls
    \/ Resolve
    \/ Probe
    \/ Download
    \/ Unzip
    \/ WriteJson
    \/ Chmod
    \/ WriteManifest
    \/ FlatpakBuilder
    \/ GameFromPath
    \/ SetCurrent
    \/ SpawnGame
    \/ GameExits
    \/ PollTags
    \/ Recv
    \/ OpenOk
    \/ OpenFail
    \/ ServeTags
    \/ RecvNext
    \/ IdleTimeout

SpecPlay == Init /\ [][NextPlay]_vars

(***************************************************************************)
(* C1: every request accepted into the inbound queue receives a reply on   *)
(* its own reply channel; none is left unanswered.  Stated as: no request  *)
(* whose caller is still waiting ever has its reply sender dropped without *)
(* a reply.                                                                *)
(***************************************************************************)
C1_NoAcceptedRequestDropped == torn = {}

(***************************************************************************)
(* C2: whenever Tags replies were given for the same raw association id    *)
(* under two different current-game identifiers, the two handles differ.   *)
(***************************************************************************)
C2_HandlesDifferAcrossGames ==
    \A t1 \in tagLog, t2 \in tagLog :
        (t1[1] = t2[1] /\ t1[2] # t2[2]) => t1[3] # t2[3]

(***************************************************************************)
(* C3: the ring never holds more than Capacity (8) entries and a push on a *)
(* full ring removes the oldest entry and nothing else; at the step where  *)
(* the 9th distinct raw association id is surfaced, the handle replied for *)
(* the 1st id stops resolving and the handles replied for ids 2 to 9 each  *)
(* resolve to their own raw id.                                            *)
(***************************************************************************)
C3_RingEviction ==
    /\ [](Len(cache) <= Capacity)
    /\ [][(cache' # cache /\ Len(cache) = Capacity) =>
            /\ Len(cache') = Capacity
            /\ SubSeq(cache', 1, Capacity - 1) = Tail(cache)]_vars
    /\ [][(seen = Capacity /\ seen' = Capacity + 1) =>
            \A t \in tagLog' :
                /\ t[1] = RawId(1) => FindRaw(cache', t[3]) = None
                /\ t[1] \in {RawId(k) : k \in 2..(Capacity + 1)} =>
                       FindRaw(cache', t[3]) = Some(t[1])]_vars

\* Nine distinct ids were surfaced, and a User-lookup with the handle that
\* was replied for the first one got None without a fetch, while the ring
\* holds the ids 2 to 9 in insertion order.
C3_Witness ==
    /\ seen = Capacity + 1
    /\ [k \in 1..Len(cache) |-> cache[k][2]] =
           [k \in 1..Capacity |-> RawId(k + 1)]
    /\ lastReply.kind = "User"
    /\ lastReply.handle = HandleFor(RawId(1), currentGame.id)
    /\ lastReply.handle \in Issued
    /\ lastReply.value = None
    /\ lastReply.hw = "none"

(***************************************************************************)
(* C4: when the worker, coming from Idle, fails to open the listener and   *)
(* the triggering caller is still waiting, that caller receives None, no   *)
(* poll or fetch was made for it, no listener exists, the ring is as it    *)
(* was and the worker is Idle again (it did not enter the service loop);   *)
(* an Idle worker has no listener, and leaves Idle only by taking the next *)
(* request and attempting the open again.                                  *)
(***************************************************************************)
OpenFailed == wstate = "Opening" /\ wstate' # "Opening" /\ ~listener'

C5_CacheSurvivesTeardown ==
    /\ [][(wstate \in {"Idle", "Opening", "Waiting"}) => cache' = cache]_vars
    /\ [][cache' # cache =>
            /\ cache' # <<>>
            /\ cache' = Push(cache, Last(cache'))
            /\ (Len(cache) < Capacity => cache' = Append(cache, Last(cache')))
         ]_vars

\* Request 1 obtained a handle, the listener was torn down and opened a
\* second time, and request 2 resolved that handle to its user.
C5_Witness ==
    /\ opens = 2
    /\ lastReply.id = 2
    /\ lastReply.kind = "User"
    /\ lastReply.value # None
    /\ cache # <<>>

(***************************************************************************)
(* C6: when download_game has returned success twice in succession for the *)
(* same game id and the same resolved hash, flatpak-builder was invoked in *)
(* at most one of the two calls.                                           *)
(***************************************************************************)
C6_AtMostOneBuild ==
    (/\ Len(calls) = 2
     /\ calls[1].id = calls[2].id
     /\ calls[1].hash = calls[2].hash
     /\ calls[1].result = "Ok"
     /\ calls[2].result = "Ok")
    => ~(calls[1].built /\ calls[2].built)

(***************************************************************************)
(* C7 as claimed: two records that differ in the identifier or in the hash *)
(* never get the same sandbox identity.                                    *)
(***************************************************************************)
BothDerived ==
    /\ Len(idOut) = 2
    /\ idOut[1] # Panicked
    /\ idOut[2] # Panicked

C7_InjectiveAsClaimed ==
    (BothDerived /\ (idIn[1].id # idIn[2].id \/ idIn[1].hash # idIn[2].hash))
        => idOut[1] # idOut[2]

(***************************************************************************)
(* C7 amended: the identity is a function of the record, and two records   *)
(* with decodable hashes get the same identity exactly when their hashes   *)
(* are equal and their identifiers are equal up to '-' versus '_'.         *)
(***************************************************************************)
SameUpToSeparators(a, b) ==
    /\ Len(a) = Len(b)
    /\ \A k \in 1..Len(a) : a[k] = b[k] \/ {a[k], b[k]} \subseteq {"-", "_"}

C7_InjectiveUpToSeparators ==
    /\ (Len(idOut) = 2 /\ idIn[1] = idIn[2]) => idOut[1] = idOut[2]
    /\ BothDerived =>
         (idOut[1] = idOut[2] <=>
             /\ idIn[1].hash = idIn[2].hash
             /\ SameUpToSeparators(idIn[1].id, idIn[2].id))

\* Two records with the same identifier and different decodable hashes
\* were given different identities.
C7_Witness ==
    /\ BothDerived
    /\ idIn[1].id = idIn[2].id
    /\ idIn[1].hash # idIn[2].hash
    /\ idOut[1] # idOut[2]

(***************************************************************************)
(* C8: no outcome of an archive entry ends the unzip loop: every step of   *)
(* the loop moves on to the next entry, the loop is left only for the      *)
(* write of game.json with every entry attempted and every entry that did  *)
(* not fail extracted, and the write of game.json, unless it fails itself, *)
(* stores the resolved record and hands over to build_flatpak.             *)
(***************************************************************************)
C8_BestEffortExtraction ==
    /\ [][lpc = "unzip" =>
            /\ lpc' \in {"unzip", "write"}
            /\ zipIdx' = zipIdx + 1]_vars
    /\ [](lpc = "write" =>
            /\ zipIdx = Len(Archive(gameId)) + 1
            /\ \A i \in (1..Len(Archive(gameId))) \ zipFailed :
                  Archive(gameId)[i].path \in disk[dlGame.id])
    /\ [][(lpc = "write" /\ lpc' # "write") =>
            \/ /\ lpc' = "locate"
               /\ localJson'[gameId] = dlGame
            \/ /\ lpc' = "idle"
               /\ result' \in {"Err", "Panic"}
               /\ localJson' = localJson]_vars

\* build_flatpak is entered after an unzip in which an entry failed and a
\* later entry was extracted all the same, with game.json written.
C8_Witness ==
    /\ lpc = "locate"
    /\ localJson[gameId] = dlGame
    /\ \E i \in zipFailed :
         \E j \in (1..Len(Archive(gameId))) \ zipFailed :
            /\ j > i
            /\ Archive(gameId)[j].path \in disk[dlGame.id]

(***************************************************************************)
(* C9: with one launch_game at a time, CURRENT_GAME holds the launched     *)
(* record when flatpak run is spawned, and for as long as the game process *)
(* exists; a ring entry pushed while the process exists carries the handle *)
(* derived from the association id and the launched game's id.             *)
(***************************************************************************)
C9_PublishedBeforeSpawn ==
    /\ [][(lpc = "spawn" /\ lpc' = "running") => currentGame = launched]_vars
    /\ [](proc # NoProc =>
            /\ proc = FlatpakIdForGame(launched)
            /\ currentGame = launched)
    /\ [][(proc # NoProc /\ cache' # cache) =>
            LET new == Last(cache')
            IN new[1] = HandleFor(new[2], launched.id)]_vars

\* While the game runs, a Tags poll was answered with a handle derived for
\* the launched game, and the ring holds it.
C9_Witness ==
    /\ proc # NoProc
    /\ \E t \in tagLog :
         /\ t[4] = proc
         /\ t[2] = launched.id
         /\ t[3] = HandleFor(t[1], launched.id)
         /\ FindRaw(cache, t[3]) = Some(t[1])
         /\ lastReply.value = Some(t[3])

(***************************************************************************)
(* C10: requests are serviced in the order they were accepted.  Request    *)
(* ids count acceptances; the queue always holds exactly the accepted and  *)
(* not yet taken requests in that order, the worker takes the oldest one   *)
(* and only after it has finished with the previous one, and every reply   *)
(* is for the request the worker holds.                                    *)
(***************************************************************************)
Taken == nextId - 1 - Len(queue)

C10_FifoService ==
    /\ [](wstate # "Dead" =>
            /\ \A i \in 1..Len(queue) : queue[i].id = Taken + i
            /\ cur.id # 0 => cur.id = Taken
            /\ lastReply.id <= Taken)
    /\ [][(cur'.id # cur.id /\ cur'.id # 0) =>
            /\ cur.id = 0
            /\ cur'.id = Taken + 1]_vars
    /\ [][lastReply' # lastReply => lastReply'.id = cur.id]_vars
    /\ [][(cache' # cache \/ tagLog' # tagLog) => cur.id = Taken]_vars

\* After an idle teardown and a second open, request 2 has been answered
\* while request 3, accepted after it, is still waiting in the queue.
C10_Witness ==
    /\ opens = 2
    /\ lastReply.id = 2
    /\ Len(queue) = 1
    /\ queue[1].id = 3

(***************************************************************************)
(* C11: the listener is open exactly while the worker is in its inner loop *)
(* (serving a request or waiting for the next one), a listener is opened   *)
(* only when none is open, every poll_for_user and fetch_user is made by   *)
(* the worker while it serves with the listener open, and a step in which  *)
(* a caller sends a request or abandons one touches neither the listener   *)
(* nor what the hardware returned.                                         *)
(***************************************************************************)
C11_ExclusiveListener ==
    /\ [](listener <=> wstate \in {"Serving", "Waiting"})
    /\ [][opens' # opens => (~listener /\ listener' /\ wstate = "Opening")]_vars
    /\ [][(lastReply' # lastReply /\ lastReply'.hw # "none") =>
            (listener /\ wstate = "Serving" /\ lastReply'.id = cur.id)]_vars
    /\ [][(nextId' # nextId \/ (wstate' = wstate /\ cur' # cur)) =>
            UNCHANGED <<listener, opens, lastReply, seen, cache>>]_vars

\* Three callers' requests were accepted; the listener is open for the
\* second time, the second request was answered after a fetch_user and the
\* third is still queued.
C11_Witness ==
    /\ listener
    /\ opens = 2
    /\ lastReply.id = 2
    /\ lastReply.hw = "fetch"
    /\ Len(queue) = 1

(***************************************************************************)
(* C12: the resolve step of download_game either goes on to the probe with *)
(* the catalog's record for game_id or, the catalog failing, with the      *)
(* record in game.json; or, with no game.json either, download_game        *)
(* returns an error to its caller and nothing on disk, nothing installed   *)
(* and no build has changed.                                               *)
(***************************************************************************)
C12_MetadataResolution ==
    [][lpc = "resolve" =>
         \/ /\ lpc' = "probe"
            /\ \/ \E h \in Hashes : dlGame' = DevcadeGame(gameId, h)
               \/ (localJson[gameId] # NoFile /\ dlGame' = localJson[gameId])
         \/ /\ lpc' = "idle"
            /\ localJson[gameId] = NoFile
            /\ result' = "Err"
            /\ UNCHANGED <<localJson, disk, installed>>]_vars

(***************************************************************************)
(* C13: when the last download_game call invoked flatpak-builder and the   *)
(* identity it built is not installed, the call returned an error; and a   *)
(* launch_game whose download_game invoked flatpak-builder is past the     *)
(* download only with that identity installed.                             *)
(***************************************************************************)
C13_BuildFailureReported ==
    /\ (/\ calls # <<>>
        /\ Last(calls).built
        /\ FlatpakIdForGame(DevcadeGame(Last(calls).id, Last(calls).hash))
              \notin installed)
       => Last(calls).result = "Err"
    /\ (/\ lpc \in {"reread", "publish", "spawn", "running"}
        /\ built)
       => FlatpakIdForGame(dlGame) \in installed

(***************************************************************************)
(* C14: Tags replies for the same raw association id given while the same  *)
(* game was current carry the same handle.  Under SpecSession a game is    *)
(* current for one stretch of time only.                                   *)
(***************************************************************************)
C14_StableHandle ==
    \A t1 \in tagLog, t2 \in tagLog :
        (t1[1] = t2[1] /\ t1[2] = t2[2]) => t1[3] = t2[3]

(***************************************************************************)
(* C15: when launch_game ends at the spawn of flatpak run, or at the wait  *)
(* on it, without the game having run to its exit, the caller gets an      *)
(* error value: launch_game never ends there by a panic.                   *)
(***************************************************************************)
C15_SpawnFailureReturned ==
    /\ [][(lpc = "spawn" /\ lpc' = "idle") => result' = "Err"]_vars
    /\ [][(lpc = "running" /\ lpc' = "idle") => result' \in {"Ok", "Err"}]_vars

(***************************************************************************)
(* C16: when flatpak info runs and finds the resolved record's identity    *)
(* installed, download_game returns Ok at once: the call is recorded as    *)
(* successful with no flatpak-builder invocation, game.json, the extracted *)
(* files, flatpak.yml and the installed sandboxes are as before, and       *)
(* launch_game goes on to its re-read.                                     *)
(***************************************************************************)
C16_ShortCircuit ==
    [][(/\ lpc = "probe"
        /\ FlatpakIdForGame(dlGame) \in installed
        /\ lpc' # "probe"
        /\ result' # "Panic") =>
         /\ calls' = LastTwo(Append(calls, [id |-> gameId,
                                            hash |-> dlGame.hash,
                                            result |-> "Ok",
                                            built |-> FALSE]))
         /\ UNCHANGED <<localJson, disk, installed>>
         /\ IF mode = "launch"
            THEN lpc' = "reread"
            ELSE lpc' = "idle" /\ result' = "Ok"]_vars

\* launch_game is about to re-read game.json after a download_game that
\* found the identity installed by an earlier call and built nothing.
C16_Witness ==
    /\ lpc = "reread"
    /\ Len(calls) = 2
    /\ calls[1].built
    /\ Last(calls).result = "Ok"
    /\ ~Last(calls).built
    /\ FlatpakIdForGame(dlGame) \in installed
    /\ FlatpakYml \in disk[gameId]

(***************************************************************************)
(* C17: when the last download_game call returned Ok, game.json exists for *)
(* the game id it was called with, and launch_game's re-read finds it.     *)
(***************************************************************************)
C17_MetadataPresent ==
    /\ (calls # <<>> /\ Last(calls).result = "Ok")
          => localJson[Last(calls).id] # NoFile
    /\ lpc = "reread" => localJson[gameId] # NoFile

(***************************************************************************)
(* C18: an open listener is dropped only by the step in which the worker,  *)
(* waiting with an empty queue, times out and becomes Idle; a worker that  *)
(* waits with a request queued takes that request next and serves it with  *)
(* the listener it has, no open in between; and a listener is opened only  *)
(* for a request the worker has taken.                                     *)
(***************************************************************************)
C18_TeardownOnlyWhenIdle ==
    /\ [][(listener /\ ~listener') =>
            (wstate = "Waiting" /\ queue = <<>> /\ wstate' = "Idle")]_vars
    /\ [][(wstate = "Waiting" /\ queue # <<>> /\ wstate' # wstate) =>
            /\ wstate' = "Serving"
            /\ cur' = Head(queue)
            /\ listener'
            /\ opens' = opens]_vars
    /\ [][opens' # opens => (wstate = "Opening" /\ cur.id # 0)]_vars

(***************************************************************************)
(* C19: a reply to a User request leaves the ring as it was; it carries a  *)
(* user only if the handle is in the ring and fetch_user was called, and   *)
(* then the user fetched for the raw id stored with that handle; for a     *)
(* handle that is not in the ring the reply is None and fetch_user was not *)
(* called.                                                                 *)
(***************************************************************************)
C19_UserLookup ==
    /\ [][(lastReply' # lastReply /\ lastReply'.kind = "User") =>
            LET hit == FindRaw(cache, lastReply'.handle)
            IN /\ cache' = cache
               /\ lastReply'.handle = cur.handle
               /\ lastReply'.value # None =>
                     /\ hit # None
                     /\ lastReply'.hw = "fetch"
                     /\ lastReply'.value = Some(UserOf(hit[2]))
                     /\ \E i \in 1..Len(cache) :
                          cache[i] = <<lastReply'.handle, hit[2]>>
               /\ hit = None =>
                     /\ lastReply'.value = None
                     /\ lastReply'.hw = "none"
               /\ lastReply'.hw = "fetch" => hit # None]_vars
    /\ [][(wstate = "Serving" /\ cur.kind = "User") => cache' = cache]_vars

\* A User request was answered with a user after a fetch, while a handle
\* issued earlier has been evicted from the ring.
C19_Witness ==
    /\ lastReply.kind = "User"
    /\ lastReply.value # None
    /\ lastReply.hw = "fetch"
    /\ \E h \in Issued : FindRaw(cache, h) = None

(***************************************************************************)
(* C20: when build_flatpak starts with no *.runtimeconfig.json file in     *)
(* publish/ and no file there named after the game, it returns an error    *)
(* with flatpak.yml not written and flatpak-builder not run; flatpak.yml   *)
(* is written only after the located executable was found on disk and      *)
(* chmod succeeded, and flatpak-builder runs only after flatpak.yml was    *)
(* written.                                                                *)
(***************************************************************************)
NoExecutable(g, name) ==
    /\ ~\E p \in disk[g] : /\ Len(p) = 2
                            /\ Parent(p) = <<Publish>>
                            /\ Last(Last(p)) = RuntimeConfig
    /\ <<Publish, name>> \notin disk[g]

C20_NoExecutableFound ==
    /\ [][(/\ lpc = "locate"
            /\ NoExecutable(gameId, dlGame.name)
            /\ lpc' # "locate") =>
              /\ lpc' = "idle"
              /\ result' = "Err"
              /\ Last(calls').result = "Err"
              /\ ~Last(calls').built
              /\ UNCHANGED <<disk, installed>>]_vars
    /\ [][(lpc' = "manifest" /\ lpc # "manifest") =>
              /\ lpc = "locate"
              /\ <<Publish, LocateExecutable(gameId)>> \in disk[gameId]]_vars
    /\ [][(lpc' = "builder" /\ lpc # "builder") =>
              /\ lpc = "manifest"
              /\ FlatpakYml \in disk'[gameId]]_vars
    /\ [][(\E g \in GameIds : FlatpakYml \in disk'[g] \ disk[g]) =>
              lpc = "manifest"]_vars
    /\ [][(installed' # installed \/ (built' /\ ~built)
            \/ (calls' # calls /\ Last(calls').built)) =>
              (lpc = "builder" /\ FlatpakYml \in disk[gameId])]_vars

\* The last download_game call returned an error from build_flatpak: the
\* archive was unpacked and game.json written, but publish/ holds neither
\* a runtimeconfig file nor a file named after the game, and there is no
\* flatpak.yml.
C20_Witness ==
    /\ lpc = "idle"
    /\ result = "Err"
    /\ calls # <<>>
    /\ Last(calls).result = "Err"
    /\ LET g == Last(calls).id
       IN /\ localJson[g] # NoFile
          /\ <<Publish>> \in disk[g]
          /\ NoExecutable(g, localJson[g].name)
          /\ FlatpakYml \notin disk[g]

(***************************************************************************)
(* C21: download_game past the probe goes download, unzip, write of        *)
(* game.json, build_flatpak, each entered from the one before it: the      *)
(* write follows the last entry of the archive, build_flatpak follows a    *)
(* successful write, and files are extracted, game.json written and        *)
(* flatpak-builder run only in their own steps.  When request_bytes or     *)
(* ZipArchive::new fails, download_game returns an error with game.json,   *)
(* the extracted files and the installed sandboxes as they were and        *)
(* without flatpak-builder having run.                                     *)
(***************************************************************************)
C21_ProvisioningOrder ==
    /\ [][(lpc' = "download" /\ lpc # "download") => lpc = "probe"]_vars
    /\ [][(lpc' = "unzip" /\ lpc # "unzip") =>
            (lpc = "download" /\ zipIdx' = 1)]_vars
    /\ [][(lpc' = "write" /\ lpc # "write") =>
            (lpc = "unzip" /\ zipIdx = Len(Archive(gameId)))]_vars
    /\ [][(lpc' = "locate" /\ lpc # "locate") =>
            (lpc = "write" /\ localJson'[gameId] = dlGame)]_vars
    /\ [][(lpc' = "builder" /\ lpc # "builder") => lpc = "manifest"]_vars
    /\ [][localJson' # localJson => lpc = "write"]_vars
    /\ [][disk' # disk => lpc \in {"unzip", "manifest"}]_vars
    /\ [][installed' # installed => lpc = "builder"]_vars
    /\ [][(lpc = "download" /\ lpc' \notin {"download", "unzip"}) =>
            /\ lpc' = "idle"
            /\ result' = "Err"
            /\ Last(calls').result = "Err"
            /\ ~Last(calls').built
            /\ UNCHANGED <<localJson, disk, installed>>]_vars

\* A first call went through download, unzip, write and a successful
\* build; a second call for the same game with another hash returned an
\* error, and game.json still holds the first call's record.
C21_Witness ==
    /\ lpc = "idle"
    /\ Len(calls) = 2
    /\ calls[1].result = "Ok"
    /\ calls[1].built
    /\ calls[2].id = calls[1].id
    /\ calls[2].hash # calls[1].hash
    /\ calls[2].result = "Err"
    /\ ~calls[2].built
    /\ localJson[calls[1].id] = DevcadeGame(calls[1].id, calls[1].hash)
    /\ FlatpakIdForGame(localJson[calls[1].id]) \in installed
    /\ FlatpakIdForGame(DevcadeGame(calls[2].id, calls[2].hash))
          \notin installed

(***************************************************************************)
(* C22: CURRENT_GAME holds the default record until a launch_game reaches  *)
(* its publish step; it changes only in that step, which stores the record *)
(* launch_game re-read; a call that ends before the publish step has left  *)
(* it alone and no process was spawned; a process is spawned only after    *)
(* the publish; and the exit of the game leaves CURRENT_GAME as it is.     *)
(***************************************************************************)
C22_CurrentGameWrittenByPublish ==
    /\ [](nCalls = 0 => currentGame = DefaultGame)
    /\ [][currentGame' # currentGame =>
            (lpc = "publish" /\ mode = "launch")]_vars
    /\ [][(lpc = "publish" /\ lpc' # "publish") =>
            (currentGame' = launched /\ lpc' = "spawn")]_vars
    /\ [][(lpc \notin {"idle", "publish", "spawn", "running"}
            /\ lpc' = "idle") =>
            (currentGame' = currentGame /\ proc = NoProc /\ proc' = NoProc)]_vars
    /\ [][(proc' # proc /\ proc' # NoProc) =>
            (lpc = "spawn" /\ currentGame = launched)]_vars
    /\ [][(lpc = "running" /\ lpc' = "idle") =>
            (currentGame' = currentGame /\ currentGame # DefaultGame)]_vars

\* A first launch published its game, which ran and exited; a second
\* launch_game, of the other game, has returned an error at its re-read of
\* game.json: CURRENT_GAME still holds the first game and nothing runs.
C22_Witness ==
    /\ lpc = "idle"
    /\ result = "Err"
    /\ Len(calls) = 2
    /\ calls[2].result = "Ok"
    /\ calls[2].id # calls[1].id
    /\ currentGame.id = calls[1].id
    /\ proc = NoProc

(***************************************************************************)
(* C23: the worker thread never ends, whatever callers do with the futures *)
(* of their requests; so the channel stays open and the queue is served.   *)
(***************************************************************************)
C23_WorkerSurvivesAbandon == wstate # "Dead"

(***************************************************************************)
(* One game launched again and again: every call is launch_game of the     *)
(* same id, while the catalog answers with whatever hash it has then.      *)
(***************************************************************************)
Relaunch ==
    /\ nCalls < MaxRelaunches
    /\ StartCall("launch")
    /\ gameId' = IdDash

NextRelaunch ==
    \/ Relaunch
    \/ Resolve
    \/ Probe
    \/ Download
    \/ Unzip
    \/ WriteJson
    \/ Chmod
    \/ WriteManifest
    \/ FlatpakBuilder
    \/ GameFromPath
    \/ SetCurrent
    \/ SpawnGame
    \/ GameExits

SpecRelaunch == Init /\ [][NextRelaunch]_vars

(***************************************************************************)
(* C24: in a launch that has reached the spawn step, the record re-read    *)
(* from game.json and published to CURRENT_GAME has the id and the hash of *)
(* the record download_game resolved in this call, and flatpak run is      *)
(* given the id that download_game probed or built.                        *)
(***************************************************************************)
C24_LaunchedIsResolved ==
    (mode = "launch" /\ lpc \in {"spawn", "running"}) =>
        /\ launched.id = dlGame.id
        /\ launched.hash = dlGame.hash
        /\ currentGame.id = dlGame.id
        /\ currentGame.hash = dlGame.hash
        /\ proc # NoProc => proc = FlatpakIdForGame(dlGame)

(***************************************************************************)
(* C25: the ring never holds more than Capacity (8) entries and no two of  *)
(* its entries have the same raw association id; the ring changes only     *)
(* while a Tags request is served, and then by the push of one entry whose *)
(* raw id was not in the ring; a Tags reply of None, or of a handle that   *)
(* is in the ring, leaves the ring as it was, and a Tags reply of a handle *)
(* that is not in the ring comes with the push of that handle.             *)
(***************************************************************************)
C25_CacheEntriesDistinct ==
    /\ [](/\ Len(cache) <= Capacity
          /\ \A i, j \in 1..Len(cache) : cache[i][2] = cache[j][2] => i = j)
    /\ [][cache' # cache =>
            /\ wstate = "Serving"
            /\ cur.kind = "Tags"
            /\ \E e \in {Last(cache')} :
                  /\ FindHandle(cache, e[2]) = None
                  /\ cache' = Push(cache, e)
                  /\ Len(cache') = (IF Len(cache) = Capacity THEN Capacity
                                    ELSE Len(cache) + 1)]_vars
    /\ [][(lastReply' # lastReply /\ lastReply'.kind = "Tags") =>
            /\ lastReply'.value = None => cache' = cache
            /\ lastReply'.value # None =>
                  IF FindRaw(cache, lastReply'.value[2]) # None
                  THEN cache' = cache
                  ELSE /\ cache' # cache
                       /\ Last(cache')[1] = lastReply'.value[2]]_vars

\* The ring is full and has evicted, and the last poll surfaced a card that
\* is in the ring but is not its newest entry: a hit on a full ring, which
\* pushed nothing.
C25_Witness ==
    /\ seen > Capacity
    /\ Len(cache) = Capacity
    /\ lastReply.kind = "Tags"
    /\ lastReply.value # None
    /\ FindRaw(cache, lastReply.value[2]) # None
    /\ Last(cache)[1] # lastReply.value[2]

=============================================================================
